---- MODULE Spec2Model ----
(***************************************************************************)
(* WordsHighliteBot (src/bot.py): the per-chat word store over SQLite, the *)
(* #WordsToLearn extractor and the daily broadcast job.                     *)
(*                                                                         *)
(* Text is modelled as a sequence of tokens.  A token is one character,    *)
(* except that the hashtag is a single token: "#WordsToLearn" is the tag   *)
(* as the source spells it, "#wordstolearn" is the same tag in another     *)
(* letter case.  Table names are token sequences too:                      *)
(* <<"chat_", "1", "2", "_words">> is the name chat_12_words.              *)
(*                                                                         *)
(* A table is modelled as the bag of the values of its word column (the    *)
(* autoincrement id is left out).  Storage errors (an unreadable database  *)
(* file) are not modelled: every SQL statement does what SQLite does on a  *)
(* healthy file.                                                           *)
(***************************************************************************)
EXTENDS Integers, Sequences, FiniteSets, Bags, TLC

VARIABLES
    sqlite_master,  \* the names of the tables of the database, in creation order
    rows,           \* table name -> bag of the words stored in it
    call,           \* the last store call made from outside: operation, arguments, result
    pre,            \* the database as it was before that call
    update,         \* the inbound update being handled (extractor specification)
    handed,         \* what handle_word_messages last passed to add_words_to_table
    last,           \* the log line the last handler ended on
    pc,             \* where the broadcast coroutine send_random_words stands
    active_chats,   \* its local: the list get_active_chats returned
    idx,            \* its local: position of the for loop in active_chats
    message,        \* its local: the message being sent
    attempts        \* the send_message calls of the current run, in order

vars == <<sqlite_master, rows, call, pre, update, handed, last,
          pc, active_chats, idx, message, attempts>>

db_vars == <<sqlite_master, rows>>
api_vars == <<call, pre>>
handler_vars == <<update, handed, last>>
job_vars == <<pc, active_chats, idx, message, attempts>>

----------------------------------------------------------------------------
(* Bounds *)

\* add_words_to_table is called with lists of at most MaxBatch entries
MaxBatch == 3
\* inbound texts of the extractor specification have at most MaxTextLen tokens
MaxTextLen == 5
\* the sampling specification stops inserting at MaxRows rows in the database
MaxRows == 7
\* the call log counts identical calls in a row up to MaxRepeat
MaxRepeat == 2

\* get_random_words(chat_id, count=5)
DefaultCount == 5

\* the chat ids updates come with: two groups (one with a two-digit id), the
\* id 0 and a personal chat (a user id, positive)
ChatIds == {0 - 12, 0 - 1, 0, 1}

\* the chat ids the store is called with directly: a group, 0, and the
\* personal chat whose digits are the group's
StoreChats == {0 - 1, 0, 1}

----------------------------------------------------------------------------
(* Strings *)

Tag == "#WordsToLearn"
TagOtherCase == "#wordstolearn"

\* str.strip() and \s: whitespace
IsSpace(ch) == ch \in {" ", "\n"}

\* \b after the tag: the characters \w matches
IsWordChar(ch) == ch \in {"a", "b", "c", "d", "e", "f", "g", "h",
                          "0", "1", "2", "3", "4", "5", "6", "7", "8", "9"}

RECURSIVE LStrip(_)
LStrip(s) == IF s # <<>> /\ IsSpace(Head(s)) THEN LStrip(Tail(s)) ELSE s

RECURSIVE RStrip(_)
RStrip(s) ==
    IF s # <<>> /\ IsSpace(s[Len(s)]) THEN RStrip(SubSeq(s, 1, Len(s) - 1)) ELSE s

\* str.strip()
Strip(s) == RStrip(LStrip(s))

\* str.split('\n'): the pieces between newlines; always at least one piece
RECURSIVE SplitLines(_, _)
SplitLines(s, cur) ==
    IF s = <<>> THEN <<cur>>
    ELSE IF Head(s) = "\n" THEN <<cur>> \o SplitLines(Tail(s), <<>>)
    ELSE SplitLines(Tail(s), Append(cur, Head(s)))

\* needle in line, for the tag
Contains(line, tok) == \E i \in 1..Len(line) : line[i] = tok

DigitChars == <<"0", "1", "2", "3", "4", "5", "6", "7", "8", "9">>
IsDigit(ch) == \E i \in 1..10 : DigitChars[i] = ch
DigitValue(ch) == (CHOOSE i \in 1..10 : DigitChars[i] = ch) - 1

RECURSIVE NatStr(_)
NatStr(n) ==
    IF n < 10 THEN <<DigitChars[n + 1]>>
    ELSE Append(NatStr(n \div 10), DigitChars[(n % 10) + 1])

\* str(chat_id)
IntStr(n) == IF n < 0 THEN <<"-">> \o NatStr(0 - n) ELSE NatStr(n)

\* int(chat_id_str); the caller checks IsIntLiteral first (ValueError otherwise)
IsIntLiteral(s) == s # <<>> /\ \A i \in 1..Len(s) : IsDigit(s[i])

RECURSIVE ParseNat(_, _)
ParseNat(s, acc) ==
    IF s = <<>> THEN acc ELSE ParseNat(Tail(s), 10 * acc + DigitValue(Head(s)))

----------------------------------------------------------------------------
(* The store *)

\* (variant: the chat id left out of the name, one table for every chat)
safe_table_name_Shared(chat_id) == <<"chat_", "_words">>

\* re.sub(r'[^0-9]', '', str(chat_id)) between "chat_" and "_words"
safe_table_name(chat_id) ==
    <<"chat_">> \o SelectSeq(IntStr(chat_id), IsDigit) \o <<"_words">>

SqliteSequence == <<"sqlite_sequence">>

TableExists(master, name) == \E i \in 1..Len(master) : master[i] = name

\* CREATE TABLE IF NOT EXISTS: the first AUTOINCREMENT table also brings
\* SQLite's own sqlite_sequence table into sqlite_master
CreateTable(master, name) ==
    IF TableExists(master, name) THEN master
    ELSE IF TableExists(master, SqliteSequence) THEN Append(master, name)
    ELSE master \o <<name, SqliteSequence>>

\* (variant: the table dropped and created again, its rows gone)
CreateRows_Reset(rws, name) ==
    [n \in DOMAIN rws \cup {name} |-> IF n = name THEN EmptyBag ELSE rws[n]]

CreateRows(rws, name) ==
    [n \in DOMAIN rws \cup {name} |-> IF n \in DOMAIN rws THEN rws[n] ELSE EmptyBag]

\* the database [master, rows] after create_chat_table(chat_id)
CreateChatTableDb(d, chat_id) ==
    [master |-> CreateTable(d.master, safe_table_name(chat_id)),
     rows   |-> CreateRows(d.rows, safe_table_name(chat_id))]

\* SELECT COUNT(*)
CountRows(rws, name) == BagCardinality(rws[name])

\* line 94: the tables that are word tables
IsChatTable(table_name) ==
    /\ table_name # <<>>
    /\ Head(table_name) = "chat_"
    /\ table_name[Len(table_name)] = "_words"

\* line 95: table_name.replace("chat_", "").replace("_words", "")
IsAffix(tok) == tok \in {"chat_", "_words"}
IsNotAffix(tok) == ~IsAffix(tok)
ChatIdStr(table_name) == SelectSeq(table_name, IsNotAffix)

\* lines 99-102: int(chat_id_str), made negative when positive
GroupChatId(chat_id_str) ==
    LET chat_id == ParseNat(chat_id_str, 0)
    IN  IF chat_id > 0 THEN 0 - chat_id ELSE chat_id

\* (variant: the row count not looked at)
HasWords_Any(d, table_name) == TRUE

\* lines 106-107: SELECT COUNT(*) ... > 0
HasWords(d, table_name) == CountRows(d.rows, table_name) > 0

\* lines 92-108: the for loop over the tables of sqlite_master
RECURSIVE ScanTables(_, _)
ScanTables(d, tables) ==
    IF tables = <<>> THEN <<>>
    ELSE LET table_name == Head(tables)
             rest == ScanTables(d, Tail(tables))
         IN  IF ~IsChatTable(table_name) THEN rest
             ELSE IF ~IsIntLiteral(ChatIdStr(table_name)) THEN rest
             ELSE IF HasWords(d, table_name)
                  THEN <<GroupChatId(ChatIdStr(table_name))>> \o rest
                  ELSE rest

\* get_active_chats() on the database d
get_active_chats(d) == ScanTables(d, d.master)

\* the sequences of k rows taken from the bag B without replacement, in any order
RECURSIVE Arrangements(_, _)
Arrangements(B, k) ==
    IF k = 0 \/ BagToSet(B) = {} THEN {<<>>}
    ELSE UNION { { <<w>> \o s : s \in Arrangements(B (-) SetToBag({w}), k - 1) }
                 : w \in BagToSet(B) }

\* (variant: the LIMIT left out of the ORDER BY RANDOM() query)
SelectWords_NoLimit(tbl, count) == Arrangements(tbl, BagCardinality(tbl))

\* lines 129-134: SELECT word (every row, in the order SQLite picks), or
\* SELECT word ... ORDER BY RANDOM() LIMIT count
SelectWords(tbl, count) ==
    IF BagCardinality(tbl) <= count
    THEN Arrangements(tbl, BagCardinality(tbl))
    ELSE Arrangements(tbl, count)

\* get_random_words(chat_id, count): the lists it can return on the database d.
\* SELECT COUNT(*) on a missing table raises; the except returns words = [].
get_random_words(d, chat_id, count) ==
    LET table_name == safe_table_name(chat_id)
    IN  IF ~TableExists(d.master, table_name) THEN {<<>>}
        ELSE IF CountRows(d.rows, table_name) = 0 THEN {<<>>}
        ELSE SelectWords(d.rows[table_name], count)

\* (variant: the word column declared without UNIQUE)
UniqueViolation_NoConstraint(tbl, word) == FALSE

\* word TEXT NOT NULL UNIQUE: the INSERT raises sqlite3.IntegrityError
UniqueViolation(tbl, word) == BagIn(word, tbl)

\* lines 158-168: one turn of the insert loop; r is [tbl, added]
InsertWord(r, word) ==
    LET clean_word == Strip(word)
    IN  IF clean_word = <<>> THEN r
        ELSE IF UniqueViolation(r.tbl, clean_word) THEN r
        ELSE [tbl |-> r.tbl (+) SetToBag({clean_word}), added |-> r.added + 1]

\* (variant: the IntegrityError caught outside the for loop, ending the batch)
RECURSIVE InsertLoop_StopAtDuplicate(_, _)
InsertLoop_StopAtDuplicate(r, words) ==
    IF words = <<>> THEN r
    ELSE IF UniqueViolation(r.tbl, Strip(Head(words))) THEN r
    ELSE InsertLoop_StopAtDuplicate(InsertWord(r, Head(words)), Tail(words))

\* lines 157-168: for word in words
RECURSIVE InsertLoop(_, _)
InsertLoop(r, words) ==
    IF words = <<>> THEN r
    ELSE InsertLoop(InsertWord(r, Head(words)), Tail(words))

\* lines 150-154: the table is created when sqlite_master does not list it
EnsureTable(d, chat_id) ==
    IF TableExists(d.master, safe_table_name(chat_id)) THEN d
    ELSE CreateChatTableDb(d, chat_id)

\* (variant: a missing table is created and the call returns 0, nothing
\* inserted)
AddWordsDb_CreateOnly(d, chat_id, words) ==
    LET table_name == safe_table_name(chat_id)
        d1 == EnsureTable(d, chat_id)
        r  == IF TableExists(d.master, table_name)
              THEN InsertLoop([tbl |-> d1.rows[table_name], added |-> 0], words)
              ELSE [tbl |-> d1.rows[table_name], added |-> 0]
    IN  [master |-> d1.master,
         rows   |-> [d1.rows EXCEPT ![table_name] = r.tbl],
         added  |-> r.added]

\* add_words_to_table(chat_id, words) on the database d: [master, rows, added]
AddWordsDb(d, chat_id, words) ==
    LET table_name == safe_table_name(chat_id)
        d1 == EnsureTable(d, chat_id)
        r  == InsertLoop([tbl |-> d1.rows[table_name], added |-> 0], words)
    IN  [master |-> d1.master,
         rows   |-> [d1.rows EXCEPT ![table_name] = r.tbl],
         added  |-> r.added]

Db == [master |-> sqlite_master, rows |-> rows]
EmptyDb == [master |-> <<>>, rows |-> <<>>]

----------------------------------------------------------------------------
(* The store called directly: create_chat_table, add_words_to_table,       *)
(* get_random_words and get_active_chats with any chat id and any list.    *)

\* the entries a caller may put in a list: blank, plain and padded strings
RawWords == { <<" ">>, <<"a">>, <<" ", "a", " ">>, <<"b">> }

RECURSIVE SeqsUpTo(_, _)
SeqsUpTo(S, n) ==
    IF n = 0 THEN {<<>>}
    ELSE LET shorter == SeqsUpTo(S, n - 1)
         IN  shorter \cup { Append(s, x) : s \in {t \in shorter : Len(t) = n - 1}, x \in S }

Batches == SeqsUpTo(RawWords, MaxBatch)

NoCall == [op |-> "none", chat_id |-> 0, words |-> <<>>, added |-> 0,
           sample |-> <<>>, chats |-> <<>>, repeat |-> 0]

\* how many times in a row the call (op, chat_id, words) has now been made
Repeat(op, chat_id, words) ==
    IF call.op = op /\ call.chat_id = chat_id /\ call.words = words
    THEN IF call.repeat < MaxRepeat THEN call.repeat + 1 ELSE MaxRepeat
    ELSE 1

\* The caller makes a call, may make the same call again, and returns:
\* call holds the call last made until the caller returns.
Idle == call.op = "none"
Again(op, chat_id, words) ==
    call.op = op /\ call.chat_id = chat_id /\ call.words = words

ApiCreateChatTable(chat_id) ==
    LET d == CreateChatTableDb(Db, chat_id)
    IN  /\ Idle \/ Again("create_chat_table", chat_id, <<>>)
        /\ sqlite_master' = d.master
        /\ rows' = d.rows
        /\ pre' = Db
        /\ call' = [NoCall EXCEPT !.op = "create_chat_table", !.chat_id = chat_id,
                                  !.repeat = Repeat("create_chat_table", chat_id, <<>>)]
        /\ UNCHANGED <<handler_vars, job_vars>>

ApiAddWords(chat_id, words) ==
    LET d == AddWordsDb(Db, chat_id, words)
    IN  /\ Idle \/ Again("add_words_to_table", chat_id, words)
        /\ sqlite_master' = d.master
        /\ rows' = d.rows
        /\ pre' = Db
        /\ call' = [NoCall EXCEPT !.op = "add_words_to_table", !.chat_id = chat_id,
                                  !.words = words, !.added = d.added,
                                  !.repeat = Repeat("add_words_to_table", chat_id, words)]
        /\ UNCHANGED <<handler_vars, job_vars>>

\* (variant: get_random_words creating a missing table, as add_words_to_table
\* does)
ApiGetRandomWords_Creates(chat_id) ==
    LET d == EnsureTable(Db, chat_id)
    IN  /\ Idle
        /\ \E words \in get_random_words(d, chat_id, DefaultCount) :
              call' = [NoCall EXCEPT !.op = "get_random_words", !.chat_id = chat_id,
                                     !.sample = words, !.repeat = 1]
        /\ pre' = Db
        /\ sqlite_master' = d.master
        /\ rows' = d.rows
        /\ UNCHANGED <<handler_vars, job_vars>>

ApiGetRandomWords(chat_id) ==
    /\ Idle
    /\ \E words \in get_random_words(Db, chat_id, DefaultCount) :
          call' = [NoCall EXCEPT !.op = "get_random_words", !.chat_id = chat_id,
                                 !.sample = words, !.repeat = 1]
    /\ pre' = Db
    /\ UNCHANGED <<db_vars, handler_vars, job_vars>>

ApiGetActiveChats ==
    /\ Idle
    /\ call' = [NoCall EXCEPT !.op = "get_active_chats", !.chats = get_active_chats(Db),
                              !.repeat = 1]
    /\ pre' = Db
    /\ UNCHANGED <<db_vars, handler_vars, job_vars>>

ApiReturn ==
    /\ ~Idle
    /\ call' = NoCall
    /\ pre' = EmptyDb
    /\ UNCHANGED <<db_vars, handler_vars, job_vars>>

NoUpdate == [kind |-> "none", chat_id |-> 0, text |-> <<>>, status |-> "none"]
NotHanded == [called |-> FALSE, chat_id |-> 0, words |-> <<>>]
NoMessage == [chat_id |-> 0, lines |-> <<>>]

InitDb ==
    /\ sqlite_master = <<>>
    /\ rows = <<>>

InitApi ==
    /\ call = NoCall
    /\ pre = EmptyDb

InitHandlers ==
    /\ update = NoUpdate
    /\ handed = NotHanded
    /\ last = "none"

InitJob ==
    /\ pc = "idle"
    /\ active_chats = <<>>
    /\ idx = 0
    /\ message = NoMessage
    /\ attempts = <<>>

InitStore == InitDb /\ InitApi /\ InitHandlers /\ InitJob

NextStore ==
    \/ \E chat_id \in StoreChats : ApiCreateChatTable(chat_id)
    \/ \E chat_id \in StoreChats, words \in Batches : ApiAddWords(chat_id, words)
    \/ \E chat_id \in StoreChats : ApiGetRandomWords(chat_id)
    \/ ApiGetActiveChats
    \/ ApiReturn

SpecStore == InitStore /\ [][NextStore]_vars

----------------------------------------------------------------------------
(* Properties of the store called directly (SpecStore) *)

Range(s) == { s[i] : i \in 1..Len(s) }

\* the words stored for chat_id in the database d, and the copies of one word
StoredSet(d, chat_id) ==
    IF TableExists(d.master, safe_table_name(chat_id))
    THEN BagToSet(d.rows[safe_table_name(chat_id)]) ELSE {}

StoredCopies(d, chat_id, word) ==
    IF TableExists(d.master, safe_table_name(chat_id))
    THEN CopiesIn(word, d.rows[safe_table_name(chat_id)]) ELSE 0

IsAdd == call.op = "add_words_to_table"

\* the call just made was add_words_to_table(chat_id, [word]) with a word
\* that is not blank
IsAddOfOneWord == IsAdd /\ Len(call.words) = 1 /\ Strip(call.words[1]) # <<>>

\* C1 (dedup idempotence): after add_words_to_table(chat_id, [word]) has been
\* called one or more times in a row with the same non-blank word, the table of
\* the chat holds exactly one copy of the (trimmed) word.  The first call of the
\* row returns 1 when the word was not stored before it (0 when an earlier
\* insert had stored it already); every later call of the row returns 0 and
\* leaves the database as it was.
C1_DedupIdempotence ==
    IsAddOfOneWord =>
        LET word == Strip(call.words[1])
        IN  /\ StoredCopies(Db, call.chat_id, word) = 1
            /\ call.repeat = 1 =>
                   call.added = 1 - StoredCopies(pre, call.chat_id, word)
            /\ call.repeat >= 2 => call.added = 0 /\ Db = pre

\* the same word has been added twice or more in a row: the last call returned
\* 0 and one copy is stored
C1_Witness ==
    /\ IsAddOfOneWord
    /\ call.repeat >= 2
    /\ call.added = 0
    /\ StoredCopies(Db, call.chat_id, Strip(call.words[1])) = 1

\* C2: after add_words_to_table(chat_id, words) the stored set of the chat is
\* its previous set united with the trimmed non-blank entries of words, no word
\* is stored twice, and the returned count is the number of words newly stored
\* (new set size minus old set size), whatever blank entries and duplicates the
\* list holds and wherever they stand in it.
C2_AddWordsResult ==
    IsAdd =>
        LET old == StoredSet(pre, call.chat_id)
            new == StoredSet(Db, call.chat_id)
            cleaned == { Strip(call.words[i]) : i \in 1..Len(call.words) } \ {<<>>}
        IN  /\ new = old \cup cleaned
            /\ \A w \in new : StoredCopies(Db, call.chat_id, w) = 1
            /\ call.added = Cardinality(new) - Cardinality(old)

\* a list with a blank entry, then a duplicate of a stored word, then a word
\* that is newly stored: the call returned 1
C2_Witness ==
    /\ IsAdd
    /\ \E i, j, k \in 1..Len(call.words) :
          /\ i < j /\ j < k
          /\ Strip(call.words[i]) = <<>>
          /\ Strip(call.words[j]) \in StoredSet(pre, call.chat_id)
          /\ Strip(call.words[k]) \notin StoredSet(pre, call.chat_id)
          /\ Strip(call.words[k]) \in StoredSet(Db, call.chat_id)
    /\ call.added = 1

\* what the chat other sees of the store is what it saw before the last call:
\* the lists get_random_words(other) can return, and whether the entry of other
\* (its id as get_active_chats rebuilds it) is in get_active_chats()
EntryOf(chat_id) == IF chat_id > 0 THEN 0 - chat_id ELSE chat_id

Unaffected(other) ==
    /\ get_random_words(Db, other, DefaultCount) = get_random_words(pre, other, DefaultCount)
    /\ EntryOf(other) \in Range(get_active_chats(Db))
         <=> EntryOf(other) \in Range(get_active_chats(pre))

\* C4 as stated (namespace isolation for any two distinct chat ids): an
\* add_words_to_table for chat A changes nothing of what any other chat id B
\* gets from get_random_words(B) or of B's entry in get_active_chats().
C4_IsolationAnyTwoIds ==
    IsAdd => \A other \in StoreChats : other # call.chat_id => Unaffected(other)

\* C4 as amended: the same for any two chat ids that differ in their digits
\* (B is neither A nor -A).
C4_IsolationDistinctDigits ==
    IsAdd =>
        \A other \in StoreChats :
            (other # call.chat_id /\ other # 0 - call.chat_id) => Unaffected(other)

\* words were newly stored for one chat while a chat with other digits holds
\* words of its own, none of them among the new ones
C4_Witness ==
    /\ IsAdd
    /\ call.added > 0
    /\ \E other \in StoreChats :
          /\ other # call.chat_id /\ other # 0 - call.chat_id
          /\ StoredSet(Db, other) # {}
          /\ StoredSet(Db, call.chat_id) \cap StoredSet(Db, other) = {}

----------------------------------------------------------------------------
(* Sampling: tables filled one word at a time from six words, so that a    *)
(* table can hold more words than get_random_words returns.                *)

SampleWords == { <<"a">>, <<"b">>, <<"c">>, <<"d">>, <<"e">>, <<"f">> }
SampleChats == {0 - 12, 0 - 1}

RECURSIVE TotalRows(_, _)
TotalRows(d, tables) ==
    IF tables = <<>> THEN 0
    ELSE (IF Head(tables) \in DOMAIN d.rows THEN CountRows(d.rows, Head(tables)) ELSE 0)
         + TotalRows(d, Tail(tables))

SampleAddWord(chat_id, word) ==
    /\ TotalRows(Db, sqlite_master) < MaxRows
    /\ ApiAddWords(chat_id, <<word>>)

NextSample ==
    \/ \E chat_id \in SampleChats, word \in SampleWords : SampleAddWord(chat_id, word)
    \/ \E chat_id \in SampleChats : ApiGetRandomWords(chat_id)
    \/ ApiReturn

SpecSample == InitStore /\ [][NextSample]_vars

Min(a, b) == IF a < b THEN a ELSE b

IsSample == call.op = "get_random_words"

\* C3 (sampling bound): get_random_words(chat_id) on a chat holding W words
\* returns exactly min(W, 5) items, each of them a word stored for that chat,
\* no item twice.
C3_SamplingBound ==
    IsSample =>
        LET stored == StoredSet(Db, call.chat_id)
            words == call.sample
        IN  /\ Len(words) = Min(Cardinality(stored), DefaultCount)
            /\ \A i \in 1..Len(words) : words[i] \in stored
            /\ \A i, j \in 1..Len(words) : i # j => words[i] # words[j]

\* a sample of 5 from a chat that holds more than 5 words, while another chat
\* holds words too
C3_Witness ==
    /\ IsSample
    /\ Cardinality(StoredSet(Db, call.chat_id)) > DefaultCount
    /\ Len(call.sample) = DefaultCount
    /\ \E other \in SampleChats : other # call.chat_id /\ StoredSet(Db, other) # {}

----------------------------------------------------------------------------
(* The handlers *)

\* (variant: the pattern searched anywhere in the text, the ^ anchor left out)
TagAtStart_Anywhere(text) == Contains(text, Tag) \/ Contains(text, TagOtherCase)

\* line 269: re.search(r'^\s*#WordsToLearn\b', text, re.IGNORECASE)
TagAtStart(text) ==
    LET t == LStrip(text)
    IN  /\ t # <<>>
        /\ Head(t) \in {Tag, TagOtherCase}
        /\ Len(t) = 1 \/ ~IsWordChar(t[2])

\* (variant: every tag line switches collecting on and off in turn)
RECURSIVE ExtractLoop_Toggle(_, _)
ExtractLoop_Toggle(lines, found_hashtag) ==
    IF lines = <<>> THEN <<>>
    ELSE LET clean_line == Strip(Head(lines))
         IN  IF clean_line = <<>> THEN ExtractLoop_Toggle(Tail(lines), found_hashtag)
             ELSE IF Contains(clean_line, Tag)
                  THEN ExtractLoop_Toggle(Tail(lines), ~found_hashtag)
             ELSE IF found_hashtag
                  THEN <<clean_line>> \o ExtractLoop_Toggle(Tail(lines), found_hashtag)
             ELSE ExtractLoop_Toggle(Tail(lines), found_hashtag)

\* lines 278-288: for line in lines; "#WordsToLearn" in clean_line compares
\* the letters as they are
RECURSIVE ExtractLoop(_, _)
ExtractLoop(lines, found_hashtag) ==
    IF lines = <<>> THEN <<>>
    ELSE LET clean_line == Strip(Head(lines))
         IN  IF clean_line = <<>> THEN ExtractLoop(Tail(lines), found_hashtag)
             ELSE IF Contains(clean_line, Tag) THEN ExtractLoop(Tail(lines), TRUE)
             ELSE IF found_hashtag
                  THEN <<clean_line>> \o ExtractLoop(Tail(lines), found_hashtag)
             ELSE ExtractLoop(Tail(lines), found_hashtag)

\* lines 274-288
ExtractWords(text) == ExtractLoop(SplitLines(text, <<>>), FALSE)

\* line 261: messages of personal chats are ignored
IsPersonalChat(chat_id) == chat_id > 0

\* handle_word_messages(update) on the database d: the database after it, what
\* it handed to add_words_to_table, and the log line it ended on.  A message
\* without text (None or "") has text <<>>.
HandleWordMessages(d, u) ==
    LET ignored(why) == [master |-> d.master, rows |-> d.rows,
                         handed |-> NotHanded, last |-> why]
        text == Strip(u.text)
    IN  IF u.text = <<>> THEN ignored("no_text")
        ELSE IF IsPersonalChat(u.chat_id) THEN ignored("personal_chat")
        ELSE IF ~TagAtStart(text) THEN ignored("no_tag")
        ELSE IF ExtractWords(text) = <<>> THEN ignored("empty_word_message")
        ELSE LET added == AddWordsDb(d, u.chat_id, ExtractWords(text))
             IN  [master |-> added.master, rows |-> added.rows,
                  handed |-> [called |-> TRUE, chat_id |-> u.chat_id,
                              words |-> ExtractWords(text)],
                  last   |-> "processed"]

\* line 245: tables are created for group chats
IsGroupChat(chat_id) == chat_id < 0

\* DROP TABLE
DropTable(d, name) ==
    [master |-> SelectSeq(d.master, LAMBDA n : n # name),
     rows   |-> [n \in DOMAIN d.rows \ {name} |-> d.rows[n]]]

\* (variant: the table of a chat dropped when the bot leaves the chat)
HandleChatAddition_DropsOnLeave(d, u) ==
    IF u.status \in {"member", "administrator"} /\ IsGroupChat(u.chat_id)
    THEN CreateChatTableDb(d, u.chat_id)
    ELSE IF u.status = "left" /\ TableExists(d.master, safe_table_name(u.chat_id))
    THEN DropTable(d, safe_table_name(u.chat_id))
    ELSE [master |-> d.master, rows |-> d.rows]

\* handle_chat_addition(update) on the database d
HandleChatAddition(d, u) ==
    IF u.status \in {"member", "administrator"} /\ IsGroupChat(u.chat_id)
    THEN CreateChatTableDb(d, u.chat_id)
    ELSE [master |-> d.master, rows |-> d.rows]

----------------------------------------------------------------------------
(* The extractor: one text message, of up to MaxTextLen tokens, handled by *)
(* handle_word_messages on an empty database or on one that holds a word.  *)

Alphabet == {Tag, TagOtherCase, " ", "\n", "a", "b"}
Texts == SeqsUpTo(Alphabet, MaxTextLen)
ExtractChats == {0 - 1, 0, 1}

\* the database after add_words_to_table(-1, ["b"]) on a new file
OneWordDb ==
    LET d == AddWordsDb(EmptyDb, 0 - 1, << <<"b">> >>)
    IN  [master |-> d.master, rows |-> d.rows]

InitExtract ==
    /\ \E d \in {EmptyDb, OneWordDb} :
          /\ sqlite_master = d.master
          /\ rows = d.rows
          /\ pre = d
    /\ \E chat_id \in ExtractChats, text \in Texts :
          update = [kind |-> "message", chat_id |-> chat_id, text |-> text,
                    status |-> "none"]
    /\ call = NoCall
    /\ handed = NotHanded
    /\ last = "none"
    /\ InitJob

Handled == last # "none"

HandleUpdate ==
    LET r == HandleWordMessages(Db, update)
    IN  /\ ~Handled
        /\ sqlite_master' = r.master
        /\ rows' = r.rows
        /\ handed' = r.handed
        /\ last' = r.last
        /\ UNCHANGED <<api_vars, update, job_vars>>

NextExtract == HandleUpdate

SpecExtract == InitExtract /\ [][NextExtract]_vars

----------------------------------------------------------------------------
(* Properties of the extractor (SpecExtract) *)

Text == Strip(update.text)

\* the lines after the first line of the text, trimmed
LaterLines ==
    LET lines == Tail(SplitLines(Text, <<>>))
    IN  [i \in 1..Len(lines) |-> Strip(lines[i])]

\* the text begins with the tag, spelled #WordsToLearn, at a word boundary
BeginsWithTagAsSpelled ==
    /\ Text # <<>>
    /\ Text[1] = Tag
    /\ Len(Text) = 1 \/ ~IsWordChar(Text[2])

\* the same, the tag in either letter case
BeginsWithTagAnyCase ==
    /\ Text # <<>>
    /\ Text[1] \in {Tag, TagOtherCase}
    /\ Len(Text) = 1 \/ ~IsWordChar(Text[2])

IsWordLine(line) == line # <<>> /\ ~Contains(line, Tag)
IsWordLineAnyCase(line) == IsWordLine(line) /\ ~Contains(line, TagOtherCase)

IsGroupMessage == Handled /\ update.chat_id < 0

\* C5 (extraction correctness): for a group message whose text starts with the
\* tag #WordsToLearn, the list handed to add_words_to_table is, in the order of
\* the lines, the trimmed non-empty lines after the first (tag) line that do not
\* contain #WordsToLearn; blank lines and tag lines are dropped, lines after a
\* second tag line are collected.  When no such line exists nothing is handed.
C5_ExtractionCorrectness ==
    (IsGroupMessage /\ BeginsWithTagAsSpelled) =>
        LET words == SelectSeq(LaterLines, IsWordLine)
        IN  handed = IF words = <<>> THEN NotHanded
                     ELSE [called |-> TRUE, chat_id |-> update.chat_id, words |-> words]

\* a group message with two tag lines and a word after the second was handled
\* and the word handed on
C5_Witness ==
    /\ IsGroupMessage
    /\ BeginsWithTagAsSpelled
    /\ \E i, j, k \in 1..Len(Text) :
          /\ i < j /\ j < k
          /\ Text[i] = Tag /\ Text[j] = Tag /\ Text[k] = "a"
    /\ handed.called
    /\ handed.words = << <<"a">> >>

\* C6 as stated (the tag is matched in any letter case): a group message whose
\* text begins with the tag, in any letter case, at a word boundary, and has a
\* later line that is neither blank nor a tag line, has those later lines handed
\* to add_words_to_table and stored; nothing is handed only when the text is
\* missing, does not begin with the tag, or has no such later line.
C6_TagInAnyCase ==
    IsGroupMessage =>
        LET words == SelectSeq(LaterLines, IsWordLineAnyCase)
        IN  /\ (BeginsWithTagAnyCase /\ words # <<>>) =>
                /\ handed.called
                /\ \A i \in 1..Len(words) :
                      /\ words[i] \in Range(handed.words)
                      /\ words[i] \in StoredSet(Db, update.chat_id)
            /\ ~handed.called =>
                \/ update.text = <<>>
                \/ ~BeginsWithTagAnyCase
                \/ words = <<>>

\* the text is missing or does not begin with the tag (in either letter case)
NoTagAtStart == Text = <<>> \/ Text[1] \notin {Tag, TagOtherCase}

\* C7 (extraction non-match): a message without text, or whose text does not
\* begin with the tag (no tag, or the tag only after other text on the first
\* line or on a later line), has nothing extracted and leaves the whole database
\* as it was: no table created, no word added.
C7_NonMatchLeavesStore ==
    (Handled /\ NoTagAtStart) =>
        /\ handed = NotHanded
        /\ Db = pre

\* a group message with the tag after other text was handled on a database
\* that holds a word
C7_Witness ==
    /\ IsGroupMessage
    /\ NoTagAtStart
    /\ Contains(Text, Tag)
    /\ last = "no_tag"
    /\ pre = OneWordDb
    /\ Db = pre

----------------------------------------------------------------------------
(* The bot: membership updates, text messages and the daily job             *)
(* send_random_words.  The handlers have no await and run in one piece; the *)
(* job is suspended at await send_message and at await asyncio.sleep, where *)
(* updates can be handled in between.                                       *)

\* the texts of the inbound messages: a tagged word, a tagged list of two
\* words, the tag in another letter case, the tag after other text
SysTexts == { <<Tag, "\n", "a">>,
              <<Tag, "\n", "a", "\n", " ", "b">>,
              <<TagOtherCase, "\n", "a">>,
              <<"a", " ", Tag, "\n", "b">> }

Statuses == {"member", "administrator", "left"}

\* handle_chat_addition
ChatMember(chat_id, status) ==
    LET d == HandleChatAddition(Db, [NoUpdate EXCEPT !.kind = "my_chat_member",
                                                     !.chat_id = chat_id,
                                                     !.status = status])
    IN  /\ sqlite_master' = d.master
        /\ rows' = d.rows
        /\ UNCHANGED <<api_vars, handler_vars, job_vars>>

\* (variant: the list of active chats kept in a global that the handler
\* refreshes after it has stored words)
TextMessage_RefreshesList(chat_id, text) ==
    LET r == HandleWordMessages(Db, [NoUpdate EXCEPT !.kind = "message",
                                                     !.chat_id = chat_id,
                                                     !.text = text])
    IN  /\ sqlite_master' = r.master
        /\ rows' = r.rows
        /\ active_chats' = get_active_chats([master |-> r.master, rows |-> r.rows])
        /\ UNCHANGED <<api_vars, handler_vars, pc, idx, message, attempts>>

\* handle_word_messages
TextMessage(chat_id, text) ==
    LET r == HandleWordMessages(Db, [NoUpdate EXCEPT !.kind = "message",
                                                     !.chat_id = chat_id,
                                                     !.text = text])
    IN  /\ sqlite_master' = r.master
        /\ rows' = r.rows
        /\ UNCHANGED <<api_vars, handler_vars, job_vars>>

\* (variant: enumerate(words) without the start value 1)
FormatMessage_ZeroBased(chat_id, words) ==
    [chat_id |-> chat_id,
     lines   |-> [i \in 1..Len(words) |-> [n |-> i - 1, word |-> words[i]]]]

\* lines 204-206: the numbered lines under the header
FormatMessage(chat_id, words) ==
    [chat_id |-> chat_id,
     lines   |-> [i \in 1..Len(words) |-> [n |-> i, word |-> words[i]]]]

\* lines 190-211: the for loop from position i up to the next
\* await send_message, or to its end: the places the job can come to
RECURSIVE RunLoop(_, _, _)
RunLoop(d, chats, i) ==
    IF i > Len(chats) THEN { [pc |-> "done", idx |-> i, message |-> NoMessage] }
    ELSE IF chats[i] > 0 THEN RunLoop(d, chats, i + 1)
    ELSE UNION { IF words = <<>> THEN RunLoop(d, chats, i + 1)
                 ELSE { [pc |-> "send", idx |-> i,
                         message |-> FormatMessage(chats[i], words)] }
                 : words \in get_random_words(d, chats[i], DefaultCount) }

\* lines 181-208: the job starts, reads the active chats and runs to its first
\* send_message (or returns when there is none)
JobStart ==
    /\ pc \in {"idle", "done"}
    /\ active_chats' = get_active_chats(Db)
    /\ attempts' = <<>>
    /\ \E next \in RunLoop(Db, get_active_chats(Db), 1) :
          /\ pc' = next.pc
          /\ idx' = next.idx
          /\ message' = next.message
    /\ UNCHANGED <<db_vars, api_vars, handler_vars>>

Attempt(ok) == [chat_id |-> message.chat_id, lines |-> message.lines, ok |-> ok]

\* lines 208-215: send_message returns; the job goes to sleep
JobSendOk ==
    /\ pc = "send"
    /\ attempts' = Append(attempts, Attempt(TRUE))
    /\ pc' = "sleep"
    /\ UNCHANGED <<db_vars, api_vars, handler_vars, active_chats, idx, message>>

\* (variant: the try around the for loop, a failed send ends the run)
JobSendRaises_EndsRun ==
    /\ pc = "send"
    /\ attempts' = Append(attempts, Attempt(FALSE))
    /\ pc' = "done"
    /\ message' = NoMessage
    /\ UNCHANGED <<db_vars, api_vars, handler_vars, active_chats, idx>>

\* (variant: a failed send tried again)
JobSendRaises_Retries ==
    /\ pc = "send"
    /\ attempts' = Append(attempts, Attempt(FALSE))
    /\ \E next \in RunLoop(Db, active_chats, idx) :
          /\ pc' = next.pc
          /\ idx' = next.idx
          /\ message' = next.message
    /\ UNCHANGED <<db_vars, api_vars, handler_vars, active_chats>>

\* lines 208, 217-218: send_message raises; the except inside the loop logs it
\* and the loop goes on to the next send_message
JobSendRaises ==
    /\ pc = "send"
    /\ attempts' = Append(attempts, Attempt(FALSE))
    /\ \E next \in RunLoop(Db, active_chats, idx + 1) :
          /\ pc' = next.pc
          /\ idx' = next.idx
          /\ message' = next.message
    /\ UNCHANGED <<db_vars, api_vars, handler_vars, active_chats>>

\* (variant: get_active_chats() called again at every turn of the loop)
JobWake_RereadsList ==
    /\ pc = "sleep"
    /\ active_chats' = get_active_chats(Db)
    /\ \E next \in RunLoop(Db, get_active_chats(Db), idx + 1) :
          /\ pc' = next.pc
          /\ idx' = next.idx
          /\ message' = next.message
    /\ UNCHANGED <<db_vars, api_vars, handler_vars, attempts>>

\* line 215: the sleep ends; the loop goes on to the next send_message
JobWake ==
    /\ pc = "sleep"
    /\ \E next \in RunLoop(Db, active_chats, idx + 1) :
          /\ pc' = next.pc
          /\ idx' = next.idx
          /\ message' = next.message
    /\ UNCHANGED <<db_vars, api_vars, handler_vars, active_chats, attempts>>

Init == InitDb /\ InitApi /\ InitHandlers /\ InitJob

Next ==
    \/ \E chat_id \in ChatIds, status \in Statuses : ChatMember(chat_id, status)
    \/ \E chat_id \in ChatIds, text \in SysTexts : TextMessage(chat_id, text)
    \/ JobStart
    \/ JobSendOk
    \/ JobSendRaises
    \/ JobWake

Spec == Init /\ [][Next]_vars

----------------------------------------------------------------------------
(* The daily job on a long word list: a group that holds five words when   *)
(* the bot starts gets a sixth one, another group its first one, by        *)
(* messages handled before and during the first run of send_random_words.  *)

DigestChats == {0 - 12, 0 - 1}
DigestTexts == { <<Tag, "\n", "f">> }

\* the database after the message "#WordsToLearn\na\nb\nc\nd\ne" of chat -1
FiveWordDb ==
    LET r == HandleWordMessages(EmptyDb,
                 [NoUpdate EXCEPT !.kind = "message", !.chat_id = 0 - 1,
                                  !.text = <<Tag, "\n", "a", "\n", "b", "\n", "c",
                                             "\n", "d", "\n", "e">>])
    IN  [master |-> r.master, rows |-> r.rows]

InitDigest ==
    /\ sqlite_master = FiveWordDb.master
    /\ rows = FiveWordDb.rows
    /\ InitApi /\ InitHandlers /\ InitJob

\* the first run of the job after the bot has started
FirstRun == pc = "idle" /\ JobStart

NextDigest ==
    \/ \E chat_id \in DigestChats, text \in DigestTexts : TextMessage(chat_id, text)
    \/ FirstRun
    \/ JobSendOk
    \/ JobSendRaises
    \/ JobWake

SpecDigest == InitDigest /\ [][NextDigest]_vars

\* await send_message ends, by returning or by raising (the request to the
\* Bot API has timeouts), and asyncio.sleep(0.5) ends: the event loop resumes
\* the job
Fairness ==
    /\ WF_vars(JobSendOk \/ JobSendRaises)
    /\ WF_vars(JobWake)

FairSpec == Spec /\ Fairness

----------------------------------------------------------------------------
(* Properties of the bot (Spec) *)

\* the job is suspended at await send_message or at await asyncio.sleep
Suspended == pc \in {"send", "sleep"}

GroupIds == { chat_id \in ChatIds : chat_id < 0 }

HasNamespace(d, chat_id) == TableExists(d.master, safe_table_name(chat_id))

\* C8 (active-tenant filter): in every reachable database, get_active_chats()
\* returns a group id (a negative id) exactly when the table of that chat
\* exists and holds at least one word: a table that exists with no word in it
\* is not in the result, and a group with words is returned under its own
\* negative id.
C8_ActiveTenantFilter ==
    \A chat_id \in GroupIds :
        chat_id \in Range(get_active_chats(Db))
            <=> (HasNamespace(Db, chat_id) /\ StoredSet(Db, chat_id) # {})

\* one group has a table without words (the bot was added, nothing was
\* written), another holds words: only the second is returned
C8_Witness ==
    \E empty, full \in GroupIds :
        /\ HasNamespace(Db, empty) /\ StoredSet(Db, empty) = {}
        /\ StoredSet(Db, full) # {}
        /\ get_active_chats(Db) = <<full>>

\* the chat ids send_message has been called with in the current run, and is
\* being called with
AttemptedIds == [i \in 1..Len(attempts) |-> attempts[i].chat_id]

\* C9 as stated (personal-chat exclusion): no run of send_random_words sends a
\* message to a chat id that is not negative, 0 included.
C9_NoSendToNonNegativeId ==
    /\ \A i \in 1..Len(attempts) : attempts[i].chat_id < 0
    /\ pc = "send" => message.chat_id < 0

\* C10 (broadcast isolation): the sends of a run go to the active chats in the
\* order get_active_chats listed them, none left out, whether or not earlier
\* sends raised; when the run has ended, send_message has been called for every
\* chat of the list, exactly as in a run where no send raises.
C10_BroadcastIsolation ==
    /\ pc \in {"send", "sleep", "done"} =>
          AttemptedIds = SubSeq(active_chats, 1, Len(attempts))
    /\ pc = "send" => message.chat_id = active_chats[Len(attempts) + 1]
    /\ pc = "done" => AttemptedIds = active_chats

\* a run has ended in which the send to one group raised and a send to a
\* group listed after it was made
C10_Witness ==
    /\ pc = "done"
    /\ \E i, j \in 1..Len(attempts) :
          /\ i < j
          /\ ~attempts[i].ok
          /\ attempts[i].chat_id < 0
          /\ attempts[j].chat_id < 0

\* the tables of sqlite_master that hold the words of a chat
WordTables(d) == { d.master[i] : i \in { j \in 1..Len(d.master) : IsChatTable(d.master[j]) } }

\* C11 as stated (only group tenants are stored): after any sequence of text
\* messages and membership changes, every word table of the database is the
\* table of a group, a chat with a negative id; no table has been created and
\* no word stored for a chat whose id is not negative, 0 included.
C11_OnlyGroupTenantsStored ==
    \A table_name \in WordTables(Db) :
        \E chat_id \in GroupIds : table_name = safe_table_name(chat_id)

\* the database d keeps every table of the database c and every row of it
Keeps(c, d) ==
    \A i \in 1..Len(c.master) :
        /\ TableExists(d.master, c.master[i])
        /\ c.master[i] \in DOMAIN c.rows =>
              /\ c.master[i] \in DOMAIN d.rows
              /\ c.rows[c.master[i]] \sqsubseteq d.rows[c.master[i]]

\* C12 (store monotonicity): every step of the bot, a membership update, a
\* text message, a step of the job with its sampling, leaves each table of
\* sqlite_master in place with every word it held: the words of a chat after
\* the step are the words before it or more.
C12_StoreMonotonicity ==
    [][Keeps(Db, [master |-> sqlite_master', rows |-> rows'])]_vars

\* a run of the job has ended with a send made, a group holds two words and
\* another group has a table without words: what membership updates and
\* messages put in the database is still there
C12_Witness ==
    /\ pc = "done"
    /\ attempts # <<>>
    /\ \E full, empty \in GroupIds :
          /\ Cardinality(StoredSet(Db, full)) = 2
          /\ HasNamespace(Db, empty) /\ StoredSet(Db, empty) = {}

\* C13 as stated (pacing after every send attempt): in a run of
\* send_random_words, a send attempt that has ended, by returning or by
\* raising, is never followed at once by the next send attempt: the job goes
\* through asyncio.sleep first.
C13_PauseAfterEverySend ==
    [][(pc = "send" /\ Len(attempts') = Len(attempts) + 1) => pc' # "send"]_vars

NoDuplicates(seq) == \A i, j \in 1..Len(seq) : i # j => seq[i] # seq[j]

\* C19 (no duplicate delivery within a run): get_active_chats() never lists a
\* chat id twice, nor does the list a run works through, so no chat gets a
\* second send attempt in the same run.
C19_NoDuplicateDelivery ==
    /\ NoDuplicates(get_active_chats(Db))
    /\ NoDuplicates(active_chats)
    /\ NoDuplicates(AttemptedIds)
    /\ pc = "send" => message.chat_id \notin Range(AttemptedIds)

\* a run over three chats has ended, each of them attempted once, one of the
\* sends having raised
C19_Witness ==
    /\ pc = "done"
    /\ Len(active_chats) = 3
    /\ Len(attempts) = 3
    /\ \E i \in 1..Len(attempts) : ~attempts[i].ok

----------------------------------------------------------------------------
(* Properties of the job on a long word list (SpecDigest) *)

\* the message lists 1 to 5 words, no word twice, each stored for the chat,
\* numbered 1, 2, ...
IsDigest(chat_id, lines) ==
    /\ Len(lines) \in 1..DefaultCount
    /\ \A i \in 1..Len(lines) : lines[i].n = i
    /\ \A i, j \in 1..Len(lines) : i # j => lines[i].word # lines[j].word
    /\ \A i \in 1..Len(lines) : lines[i].word \in StoredSet(Db, chat_id)

\* C14 (message content): every message send_random_words sends, or has sent
\* in the current run, lists between 1 and 5 words, no word twice, numbered
\* consecutively from 1, each of them stored for the chat it goes to (stored
\* when it was sampled, and kept since); no message without words is sent.
C14_MessageContent ==
    /\ pc = "send" => IsDigest(message.chat_id, message.lines)
    /\ \A i \in 1..Len(attempts) : IsDigest(attempts[i].chat_id, attempts[i].lines)

\* a run has ended in which a group holding six words was sent five of them
\* and a group holding one word was sent that word
C14_Witness ==
    /\ pc = "done"
    /\ \E i, j \in 1..Len(attempts) :
          /\ Cardinality(StoredSet(Db, attempts[i].chat_id)) > DefaultCount
          /\ Len(attempts[i].lines) = DefaultCount
          /\ Len(attempts[j].lines) = 1

----------------------------------------------------------------------------
(* More properties of the store called directly (SpecStore) *)

\* C15 (sample of nothing): get_random_words(chat_id) for a chat that has no
\* table, or a table with no row in it, returns the empty list (the error of
\* the SELECT on a missing table is caught, nothing is raised) and leaves the
\* database as it was: the missing table is not created.
C15_SampleOfNothing ==
    (IsSample /\ StoredSet(pre, call.chat_id) = {}) =>
        /\ call.sample = <<>>
        /\ Db = pre
        /\ HasNamespace(Db, call.chat_id) <=> HasNamespace(pre, call.chat_id)

\* get_random_words has returned for a chat without a table while another
\* chat holds words
C15_Witness ==
    /\ IsSample
    /\ ~HasNamespace(Db, call.chat_id)
    /\ call.sample = <<>>
    /\ \E other \in StoreChats : StoredSet(Db, other) # {}

IsCreate == call.op = "create_chat_table"

\* C16 (create_chat_table is idempotent): after create_chat_table(chat_id) the
\* table of the chat exists; when it existed before the call the database is
\* what it was, with every word of the chat; the tables of chats with other
\* digits are what they were; a second call in a row changes nothing.
C16_CreateIdempotent ==
    IsCreate =>
        /\ HasNamespace(Db, call.chat_id)
        /\ HasNamespace(pre, call.chat_id) => Db = pre
        /\ StoredSet(Db, call.chat_id) = StoredSet(pre, call.chat_id)
        /\ \A other \in StoreChats :
              safe_table_name(other) # safe_table_name(call.chat_id) =>
                  /\ HasNamespace(Db, other) <=> HasNamespace(pre, other)
                  /\ \A word \in StoredSet(Db, other) \cup StoredSet(pre, other) :
                        StoredCopies(Db, other, word) = StoredCopies(pre, other, word)
        /\ call.repeat >= 2 => Db = pre

\* create_chat_table was called twice in a row for a chat that holds words,
\* while the table of another chat exists
C16_Witness ==
    /\ IsCreate
    /\ call.repeat >= 2
    /\ StoredSet(Db, call.chat_id) # {}
    /\ \E other \in StoreChats :
          /\ safe_table_name(other) # safe_table_name(call.chat_id)
          /\ HasNamespace(Db, other)

\* the entries of a list that are not blank, stripped
CleanWords(words) == { Strip(words[i]) : i \in 1..Len(words) } \ {<<>>}

\* C17 (self-healing insert): add_words_to_table(chat_id, words) for a chat
\* whose table does not exist creates the table and ends with the database
\* and the count that the same call gives after create_chat_table(chat_id):
\* the table holds the non-blank words of the list, once each, and the count
\* is their number.
C17_SelfHealingInsert ==
    (IsAdd /\ ~HasNamespace(pre, call.chat_id)) =>
        LET created == AddWordsDb(CreateChatTableDb(pre, call.chat_id),
                                  call.chat_id, call.words)
        IN  /\ HasNamespace(Db, call.chat_id)
            /\ Db = [master |-> created.master, rows |-> created.rows]
            /\ call.added = created.added
            /\ StoredSet(Db, call.chat_id) = CleanWords(call.words)
            /\ call.added = Cardinality(CleanWords(call.words))

\* words were stored by a call made for a chat that had no table, in a
\* database where another chat had one
C17_Witness ==
    /\ IsAdd
    /\ ~HasNamespace(pre, call.chat_id)
    /\ call.added >= 2
    /\ \E other \in StoreChats : HasNamespace(pre, other)

----------------------------------------------------------------------------
(* Properties of the bot with its job resumed (FairSpec) *)

\* C18 (updates interleave with a broadcast): a step that changes the
\* database while a run of send_random_words is suspended at a send or at the
\* pause is one whole call of a handler, which leaves the job where it is; if
\* it is a tagged message of a group, the words of the message are stored
\* after it.  The suspended run resumes and ends with send_message called for
\* every chat of its list.
C18_UpdatesInterleave ==
    /\ [][(Suspended /\ <<sqlite_master', rows'>> # <<sqlite_master, rows>>) =>
            /\ UNCHANGED job_vars
            /\ \/ \E chat_id \in ChatIds, text \in SysTexts :
                     /\ TextMessage(chat_id, text)
                     /\ CleanWords(ExtractWords(Strip(text)))
                           \subseteq StoredSet([master |-> sqlite_master',
                                                rows |-> rows'], chat_id)
               \/ \E chat_id \in ChatIds, status \in Statuses :
                     ChatMember(chat_id, status)]_vars
    /\ Suspended ~> (pc = "done" /\ AttemptedIds = active_chats)

\* the job is asleep after a send, and a group that is not in the list of
\* this run holds words: they were stored by a message handled since the run
\* began
C18_Witness ==
    /\ pc = "sleep"
    /\ \E chat_id \in GroupIds :
          /\ StoredSet(Db, chat_id) # {}
          /\ chat_id \notin Range(active_chats)

====
